---- MODULE Spec2Model ----
(***************************************************************************)
(* MetricsStore of mms/metrics/metrics_store.py as a state machine.        *)
(*                                                                         *)
(* Python values are records [t, s, n]: t is the type tag, s the           *)
(* characters of a str (a sequence of one-character strings, so that join  *)
(* and substring tests are computed), n the number of an int or the        *)
(* address of a list object.  List objects live in the heap `lists`,       *)
(* Metric objects in the heap `metrics`; store and cache hold addresses,   *)
(* as the Python objects hold references.                                  *)
(***************************************************************************)
EXTENDS Integers, Sequences, FiniteSets, TLC

VARIABLES store, cache, request_ids, model_name, metrics, lists, kept, hist, last, ncalls

vars == <<store, cache, request_ids, model_name, metrics, lists, kept, hist, last, ncalls>>

\* ------------------------------------------------------------------ bounds
\* number of add-calls made on one store
MaxCalls == 2

\* ------------------------------------------------------- Python values
PNone == [t |-> "none", s |-> <<>>, n |-> 0]
PStr(s) == [t |-> "str", s |-> s, n |-> 0]
PInt(n) == [t |-> "int", s |-> <<>>, n |-> n]
\* a list object, by its address in lists
PList(ref) == [t |-> "list", s |-> <<>>, n |-> ref]
\* a tuple: a sequence that is not a list
PTuple == [t |-> "tuple", s |-> <<>>, n |-> 0]

s_None == <<"N", "o", "n", "e">>
s_count == <<"c", "o", "u", "n", "t">>
s_percent == <<"p", "e", "r", "c", "e", "n", "t">>
s_counter == <<"c", "o", "u", "n", "t", "e", "r">>
s_ms == <<"m", "s">>
s_s == <<"s">>
s_min == <<"m", "i", "n">>
s_MB == <<"M", "B">>
s_kB == <<"k", "B">>
s_GB == <<"G", "B">>
s_ModelName == <<"M", "o", "d", "e", "l", "N", "a", "m", "e">>
s_Level == <<"L", "e", "v", "e", "l">>
s_Model == <<"M", "o", "d", "e", "l">>
s_Error == <<"E", "r", "r", "o", "r">>

\* str(x) for None and str
StrOf(x) == IF x.t = "none" THEN s_None ELSE x.s

\* sep.join(parts), parts a sequence of character sequences
RECURSIVE Join(_, _)
Join(sep, parts) ==
  IF Len(parts) = 0 THEN <<>>
  ELSE IF Len(parts) = 1 THEN parts[1]
  ELSE parts[1] \o sep \o Join(sep, Tail(parts))

\* `a in b` for two str: a is a substring of b
IsSubstring(a, b) ==
  \E i \in 0..(Len(b) - Len(a)) : \A j \in 1..Len(a) : b[i + j] = a[j]

\* ------------------------------------------------------------ Dimension
Dimension(name, value) == [name |-> name, value |-> value]

\* str(Dimension)
DimStr(d) == d.name \o <<":">> \o d.value

\* --------------------------------------------------------------- Metric
\* Metric(name, value, unit, dimensions, request_id, metrics_method): holds
\* what it is given; dimensions is the list object it was given, not a copy.
\* updates records the update(value) calls made on it, in order.
Metric(name, value, unit, dimensions, req_id, metrics_method) ==
  [name |-> name, value |-> value, unit |-> unit, dimensions |-> dimensions,
   request_id |-> req_id, metrics_method |-> metrics_method, updates |-> <<>>]

\* Metric.update(value): a counter accumulates, any other metric keeps the
\* latest value
MetricUpdate(m, value) ==
  [m EXCEPT !.value = IF m.metrics_method = PStr(s_counter) THEN @ + value ELSE value,
            !.updates = Append(@, value)]

\* ------------------------------------------------------------- _get_req
\* request_ids is [t, s, d]: None, a str s, or a dict d given as the sequence
\* of its items [k, v] in insertion order
RNone == [t |-> "none", s |-> <<>>, d |-> <<>>]
RStr(s) == [t |-> "str", s |-> s, d |-> <<>>]
RDict(d) == [t |-> "dict", s |-> <<>>, d |-> d]

DictKeys(d) == {d[i].k : i \in 1..Len(d)}
DictGet(d, k) == d[CHOOSE i \in 1..Len(d) : d[i].k = k].v
DictValues(d) == [i \in 1..Len(d) |-> d[i].v]

\* `idx in self.request_ids` (line 85): "yes", "no" or "TypeError"
IdxIn(rids, idx) ==
  IF rids.t = "dict"
  THEN IF idx.t = "int" /\ idx.n \in DictKeys(rids.d) THEN "yes" ELSE "no"
  ELSE IF idx.t # "str" THEN "TypeError"
  ELSE IF IsSubstring(idx.s, rids.s) THEN "yes" ELSE "no"

\* req_id before line 85: request_ids, or the join of a dict's values
DefaultReq(rids) ==
  IF rids.t = "dict" THEN PStr(Join(<<",">>, DictValues(rids.d)))
  ELSE IF rids.t = "str" THEN PStr(rids.s)
  ELSE PNone

\* _get_req with `if idx and ...` for `if idx is not None and ...`: index 0
\* is taken for no index
GetReqFalsyIdx(rids, idx) ==
  IF idx.t # "none" /\ idx # PInt(0) /\ rids.t # "none"
  THEN LET in == IdxIn(rids, idx) IN
       IF in = "TypeError" THEN [exc |-> "TypeError", val |-> PNone]
       ELSE IF in = "yes"
       THEN IF rids.t = "dict"
            THEN [exc |-> "", val |-> PStr(DictGet(rids.d, idx.n))]
            ELSE [exc |-> "TypeError", val |-> PNone]
       ELSE [exc |-> "", val |-> DefaultReq(rids)]
  ELSE [exc |-> "", val |-> DefaultReq(rids)]

\* _get_req(idx): [exc, val]
GetReq(rids, idx) ==
  IF idx.t # "none" /\ rids.t # "none"
  THEN LET in == IdxIn(rids, idx) IN
       IF in = "TypeError" THEN [exc |-> "TypeError", val |-> PNone]
       ELSE IF in = "yes"
       THEN IF rids.t = "dict"
            THEN [exc |-> "", val |-> PStr(DictGet(rids.d, idx.n))]
            ELSE \* str[str]: string indices must be integers
                 [exc |-> "TypeError", val |-> PNone]
       ELSE [exc |-> "", val |-> DefaultReq(rids)]
  ELSE [exc |-> "", val |-> DefaultReq(rids)]

\* ------------------------------------------------------- _add_or_update
\* the tags of lines 56-60 with the second test (line 59) left out: the Error
\* tag is appended whatever the request id
AugmentBoth(dims, req_id, mn) ==
  LET a == IF req_id.t # "none"
           THEN dims \o <<Dimension(s_ModelName, mn), Dimension(s_Level, s_Model)>>
           ELSE dims
  IN a \o <<Dimension(s_Level, s_Error)>>

\* lines 56-60
Augment(dims, req_id, mn) ==
  LET a == IF req_id.t # "none"
           THEN dims \o <<Dimension(s_ModelName, mn), Dimension(s_Level, s_Model)>>
           ELSE dims
  IN IF req_id.t = "none" THEN a \o <<Dimension(s_Level, s_Error)>> ELSE a

\* line 62: [name, unit, str(req_id)] + [str(d) for d in dimensions]
KeyParts(name, unit, req_id, dims) ==
  <<name, unit, PStr(StrOf(req_id))>> \o [i \in 1..Len(dims) |-> PStr(DimStr(dims[i]))]

\* line 63: '-'.join(dim_str) raises TypeError on an item that is not a str
JoinOk(parts) == \A i \in 1..Len(parts) : parts[i].t = "str"
JoinKey(parts) == Join(<<"-">>, [i \in 1..Len(parts) |-> parts[i].s])

\* the test of line 64 taken as always true: every call inserts
CacheMissAlways(c, key) == TRUE

\* line 64: dim_str not in self.cache
CacheMiss(c, key) == key \notin DOMAIN c

\* Insert without line 67: the Metric is not registered in cache
InsertNoCache(st, key, m) ==
  [st EXCEPT !.metrics = Append(@, m),
             !.store = Append(@, Len(st.metrics) + 1)]

\* Insert that puts the new Metric at the front of store
InsertFront(st, key, m) ==
  LET id == Len(st.metrics) + 1 IN
  [st EXCEPT !.metrics = Append(@, m),
             !.store = <<id>> \o @,
             !.cache = (key :> id) @@ @]

\* lines 65-67: a new Metric, appended to store and registered in cache
Insert(st, key, m) ==
  LET id == Len(st.metrics) + 1 IN
  [st EXCEPT !.metrics = Append(@, m),
             !.store = Append(@, id),
             !.cache = (key :> id) @@ @]

\* line 69: self.cache[dim_str].update(value)
Update(st, key, value) ==
  [st EXCEPT !.metrics[st.cache[key]] = MetricUpdate(@, value)]

\* the outcome of a call: the exception raised and the line that raised it
\* ("" and 0 when none), the request id and key list it computed, whether it
\* reached the cache (line 64), hit it, and the Metric it created or updated
NoCall == [exc |-> "", at |-> 0, req_id |-> PNone, parts |-> <<>>,
           hit |-> FALSE, target |-> 0, reached |-> FALSE]

\* _add_or_update(name, value, req_id, unit, metrics_method, dimensions) on the
\* objects st = [store, cache, metrics, lists]: [st, r], r the outcome
AddOrUpdate(st, mn, name, value, req_id, unit, metrics_method, dimensions) ==
  IF dimensions.t # "none" /\ dimensions.t # "list"
  THEN [st |-> st, r |-> [NoCall EXCEPT !.exc = "InvalidDimensions", !.at = 55,
                                        !.req_id = req_id]]
  ELSE
    LET ref == IF dimensions.t = "none" THEN Len(st.lists) + 1 ELSE dimensions.n
        l0 == IF dimensions.t = "none" THEN Append(st.lists, <<>>) ELSE st.lists
        l1 == [l0 EXCEPT ![ref] = Augment(@, req_id, mn)]
        parts == KeyParts(name, unit, req_id, l1[ref])
        key == JoinKey(parts)
        st1 == [st EXCEPT !.lists = l1]
    IN IF ~JoinOk(parts)
       THEN [st |-> IF dimensions.t = "none" THEN st ELSE st1,
             r |-> [NoCall EXCEPT !.exc = "TypeError", !.at = 63, !.req_id = req_id,
                                  !.parts = parts]]
       ELSE IF CacheMiss(st.cache, key)
       THEN [st |-> Insert(st1, key, Metric(name, value, unit, ref, req_id, metrics_method)),
             r |-> [NoCall EXCEPT !.req_id = req_id, !.parts = parts,
                                  !.target = Len(st.metrics) + 1, !.reached = TRUE]]
       ELSE [st |-> Update(IF dimensions.t = "none" THEN st ELSE st1, key, value),
             r |-> [NoCall EXCEPT !.req_id = req_id, !.parts = parts,
                                  !.hit = TRUE, !.target = st.cache[key],
                                  !.reached = TRUE]]

\* ------------------------------------------------------ public operations
\* Each takes the objects st, self.request_ids, self.model_name and the
\* arguments of the call, and gives [st, r].
\* the time units with 'min' let through
TimeUnitsWide == {PStr(s_ms), PStr(s_s), PStr(s_min)}

\* line 123, line 143: the units add_time and add_size accept
TimeUnits == {PStr(s_ms), PStr(s_s)}
SizeUnits == {PStr(s_MB), PStr(s_kB), PStr(s_GB)}

Raise(st, exc, at) == [st |-> st, r |-> [NoCall EXCEPT !.exc = exc, !.at = at]]

\* lines 104-106
add_counter(st, rids, mn, name, value, idx, dimensions) ==
  LET unit == PStr(s_count)
      req == GetReq(rids, idx)
  IN IF req.exc # "" THEN Raise(st, req.exc, 85)
     ELSE AddOrUpdate(st, mn, name, value, req.val, unit, PStr(s_counter), dimensions)

\* add_time with the unit checked after the Metric was added
add_time_checks_late(st, rids, mn, name, value, idx, unit, dimensions) ==
  LET req == GetReq(rids, idx) IN
  IF req.exc # "" THEN Raise(st, req.exc, 85)
  ELSE LET out == AddOrUpdate(st, mn, name, value, req.val, unit, dimensions, PNone) IN
       IF unit \notin TimeUnits THEN Raise(out.st, "InvalidUnit", 124) ELSE out

\* lines 123-126: dimensions is passed in the place of metrics_method
add_time(st, rids, mn, name, value, idx, unit, dimensions) ==
  IF unit \notin TimeUnits THEN Raise(st, "InvalidUnit", 124)
  ELSE LET req == GetReq(rids, idx) IN
       IF req.exc # "" THEN Raise(st, req.exc, 85)
       ELSE AddOrUpdate(st, mn, name, value, req.val, unit, dimensions, PNone)

\* lines 143-146
add_size(st, rids, mn, name, value, idx, unit, dimensions) ==
  IF unit \notin SizeUnits THEN Raise(st, "InvalidUnit", 144)
  ELSE LET req == GetReq(rids, idx) IN
       IF req.exc # "" THEN Raise(st, req.exc, 85)
       ELSE AddOrUpdate(st, mn, name, value, req.val, unit, dimensions, PNone)

\* lines 161-163
add_percent(st, rids, mn, name, value, idx, dimensions) ==
  LET unit == PStr(s_percent)
      req == GetReq(rids, idx)
  IN IF req.exc # "" THEN Raise(st, req.exc, 85)
     ELSE AddOrUpdate(st, mn, name, value, req.val, unit, dimensions, PNone)

\* add_error taking its request id from request_ids, as the other operations do
add_error_resolves(st, rids, mn, name, value, dimensions) ==
  AddOrUpdate(st, mn, name, value, DefaultReq(rids), PStr(<<>>), dimensions, PNone)

\* lines 175-176
add_error(st, rids, mn, name, value, dimensions) ==
  AddOrUpdate(st, mn, name, value, PNone, PStr(<<>>), dimensions, PNone)

\* lines 193-194
add_metric(st, rids, mn, name, value, idx, unit, dimensions) ==
  LET req == GetReq(rids, idx) IN
  IF req.exc # "" THEN Raise(st, req.exc, 85)
  ELSE AddOrUpdate(st, mn, name, value, req.val, unit, dimensions, PNone)

\* ------------------------------------------------------------ the caller
D1 == Dimension(<<"x">>, <<"1">>)
D2 == Dimension(<<"y">>, <<"2">>)

s_r1 == <<"r", "1">>
s_r2 == <<"r", "2">>
s_m == <<"m">>

Names == {PStr(<<"a">>)}
\* the k-th call passes k, so that the order of the updates shows in a Metric
Values == {ncalls + 1}
Idxs == {PNone, PInt(0), PInt(5)}
RequestIds == {RNone, RStr(s_r1),
               RDict(<<[k |-> 0, v |-> s_r1], [k |-> 1, v |-> s_r2]>>)}
ModelNames == {s_m}
\* the units a caller passes to add_time, add_size and add_metric
TimeArgs == {PStr(s_ms), PStr(s_min)}
SizeArgs == {PStr(s_MB), PStr(s_ms)}
MetricArgs == {PNone, PStr(s_count)}
\* the list literals a caller passes as dimensions
FreshLists == {<<D1, D2>>, <<D2, D1>>}

\* The dimensions argument of a call: None, a tuple, a list built for this
\* call, or a list the caller built for an earlier call and kept (kept holds
\* their addresses).  [arg, lists]: the argument and the heap the call starts on.
DimChoices ==
  {[arg |-> PNone, lists |-> lists], [arg |-> PTuple, lists |-> lists]}
  \cup {[arg |-> PList(Len(lists) + 1), lists |-> Append(lists, c)] : c \in FreshLists}
  \cup {[arg |-> PList(i), lists |-> lists] : i \in kept}

Objects(l) == [store |-> store, cache |-> cache, metrics |-> metrics, lists |-> l]

\* the contents of the caller's list when the call starts
DimsIn(dc) == IF dc.arg.t = "list" THEN dc.lists[dc.arg.n] ELSE <<>>

\* the call as a record: its arguments and its outcome r
Call(op, value, idx, unit, dc, out) ==
  [op |-> op, value |-> value, idx |-> idx, unit |-> unit, dimensions |-> dc.arg,
   dims_in |-> DimsIn(dc), r |-> out.r]

\* the state after a call: the mutated objects; last is the call, hist the
\* calls so far that reached the cache (line 64), each with its key list, its
\* value, the caller's dimensions, and the Metric it created or updated
Called(op, value, idx, unit, dc, out) ==
  /\ ncalls < MaxCalls
  /\ ncalls' = ncalls + 1
  /\ store' = out.st.store
  /\ cache' = out.st.cache
  /\ metrics' = out.st.metrics
  /\ lists' = out.st.lists
  /\ kept' = IF dc.arg.t = "list" THEN kept \cup {dc.arg.n} ELSE kept
  /\ last' = Call(op, value, idx, unit, dc, out)
  /\ hist' = IF out.r.reached
             THEN Append(hist, [parts |-> out.r.parts, value |-> value,
                                dims_in |-> DimsIn(dc), hit |-> out.r.hit,
                                target |-> out.r.target])
             ELSE hist
  /\ UNCHANGED <<request_ids, model_name>>

AddCounter ==
  \E name \in Names, value \in Values, idx \in Idxs, dc \in DimChoices :
    Called("add_counter", value, idx, PStr(s_count), dc,
           add_counter(Objects(dc.lists), request_ids, model_name,
                       name, value, idx, dc.arg))

AddTime ==
  \E name \in Names, value \in Values, idx \in Idxs, unit \in TimeArgs, dc \in DimChoices :
    Called("add_time", value, idx, unit, dc,
           add_time(Objects(dc.lists), request_ids, model_name,
                    name, value, idx, unit, dc.arg))

AddSize ==
  \E name \in Names, value \in Values, idx \in Idxs, unit \in SizeArgs, dc \in DimChoices :
    Called("add_size", value, idx, unit, dc,
           add_size(Objects(dc.lists), request_ids, model_name,
                    name, value, idx, unit, dc.arg))

AddPercent ==
  \E name \in Names, value \in Values, idx \in Idxs, dc \in DimChoices :
    Called("add_percent", value, idx, PStr(s_percent), dc,
           add_percent(Objects(dc.lists), request_ids, model_name,
                       name, value, idx, dc.arg))

AddError ==
  \E name \in Names, value \in Values, dc \in DimChoices :
    Called("add_error", value, PNone, PStr(<<>>), dc,
           add_error(Objects(dc.lists), request_ids, model_name, name, value, dc.arg))

AddMetric ==
  \E name \in Names, value \in Values, idx \in Idxs, unit \in MetricArgs, dc \in DimChoices :
    Called("add_metric", value, idx, unit, dc,
           add_metric(Objects(dc.lists), request_ids, model_name,
                      name, value, idx, unit, dc.arg))

\* lines 27-30
Init ==
  /\ store = <<>>
  /\ cache = [k \in {} |-> 0]
  /\ request_ids \in RequestIds
  /\ model_name \in ModelNames
  /\ metrics = <<>>
  /\ lists = <<>>
  /\ kept = {}
  /\ hist = <<>>
  /\ last = [op |-> "init", value |-> 0, idx |-> PNone, unit |-> PNone,
             dimensions |-> PNone, dims_in |-> <<>>, r |-> NoCall]
  /\ ncalls = 0

Next == AddCounter \/ AddTime \/ AddSize \/ AddPercent \/ AddError \/ AddMetric

Spec == Init /\ [][Next]_vars

\* ---------------------------------------------- names and units with '-'
\* A caller of add_metric whose names and units hold the separator of line 63.
KeyNames == {PStr(<<"a">>), PStr(<<"a", "-", "b">>)}
KeyUnits == {PStr(<<"c">>), PStr(<<"b", "-", "c">>)}

AddMetricKeys ==
  \E name \in KeyNames, value \in Values, idx \in Idxs, unit \in KeyUnits, dc \in DimChoices :
    Called("add_metric", value, idx, unit, dc,
           add_metric(Objects(dc.lists), request_ids, model_name,
                      name, value, idx, unit, dc.arg))

NextKeys == AddMetricKeys \/ AddError

SpecKeys == Init /\ [][NextKeys]_vars

\* ================================================================ claims
IdxOps == {"add_counter", "add_time", "add_size", "add_percent", "add_metric"}
Ops == IdxOps \cup {"add_error"}

\* the calls of hist that produced the key list p, in call order
CallsOf(p) == SelectSeq(hist, LAMBDA h : h.parts = p)

RECURSIVE Sum(_)
Sum(vals) == IF Len(vals) = 0 THEN 0 ELSE vals[1] + Sum(Tail(vals))

InStore(id) == {k \in 1..Len(store) : store[k] = id}

C2_CacheStoreConsistent ==
  /\ \A k \in DOMAIN cache : InStore(cache[k]) # {}
  /\ \A i \in 1..Len(store) :
       Cardinality({k \in DOMAIN cache : cache[k] = store[i]}) = 1
  /\ Cardinality(DOMAIN cache) = Len(store)
  /\ \A i \in 1..Len(hist) :
       /\ JoinKey(hist[i].parts) \in DOMAIN cache
       /\ cache[JoinKey(hist[i].parts)] = hist[i].target

\* a store of one Metric after a call that created it and a call that failed
C2_Witness ==
  /\ Len(store) = 1
  /\ ncalls = 2
  /\ last.r.exc # ""

\* the key lists of hist in the order of their first occurrence
RECURSIVE FirstSeen(_, _)
FirstSeen(h, seen) ==
  IF Len(h) = 0 THEN <<>>
  ELSE IF h[1].parts \in seen THEN FirstSeen(Tail(h), seen)
  ELSE <<h[1].parts>> \o FirstSeen(Tail(h), seen \cup {h[1].parts})

IsPrefix(a, b) == Len(a) <= Len(b) /\ \A i \in 1..Len(a) : a[i] = b[i]

C3_OrderNow ==
  LET first == FirstSeen(hist, {}) IN
  /\ Len(store) = Len(first)
  /\ \A i \in 1..Len(first) : cache[JoinKey(first[i])] = store[i]

C3_Step ==
  /\ IsPrefix(store, store')
  /\ last'.r.hit => store' = store

C4_NoPartialMutation ==
  [][last'.r.exc # "" => store' = store /\ cache' = cache /\ metrics' = metrics]_vars

\* add_metric with unit None raised while joining the key, on a store that
\* holds a Metric
C4_Witness ==
  /\ last.op = "add_metric"
  /\ last.r.exc = "TypeError"
  /\ last.r.at = 63
  /\ Len(store) = 1

\* every unit a caller may pass
AllUnits == {PNone, PStr(<<>>), PStr(s_count), PStr(s_percent), PStr(s_ms), PStr(s_s),
             PStr(s_min), PStr(s_MB), PStr(s_kB), PStr(s_GB)}

\* add_time and add_size called in the current state with unit u and index idx
TimeCall(u, idx) ==
  add_time(Objects(lists), request_ids, model_name, PStr(<<"a">>), 1, idx, u, PNone)
SizeCall(u, idx) ==
  add_size(Objects(lists), request_ids, model_name, PStr(<<"a">>), 1, idx, u, PNone)

Created(op) == last.op = op /\ last.r.reached /\ ~last.r.hit

\* the caller may make a further call in this state
CanCall == ncalls < MaxCalls

\* C5: add_time raises the invalid-unit error exactly for the units outside
\* {ms, s}, add_size exactly for those outside {MB, kB, GB}, also when the
\* request id could not be resolved; a Metric created by add_counter,
\* add_percent, add_error has unit 'count', 'percent', ''.
C5_UnitRules ==
  /\ last.op = "add_time" =>
       (last.r.exc = "InvalidUnit" <=> last.unit \notin {PStr(s_ms), PStr(s_s)})
  /\ last.op = "add_size" =>
       (last.r.exc = "InvalidUnit" <=> last.unit \notin {PStr(s_MB), PStr(s_kB), PStr(s_GB)})
  /\ CanCall =>
       \A u \in AllUnits, idx \in Idxs :
         /\ TimeCall(u, idx).r.exc = "InvalidUnit" <=> u \notin {PStr(s_ms), PStr(s_s)}
         /\ SizeCall(u, idx).r.exc = "InvalidUnit"
              <=> u \notin {PStr(s_MB), PStr(s_kB), PStr(s_GB)}
  /\ Created("add_counter") => metrics[last.r.target].unit = PStr(s_count)
  /\ Created("add_percent") => metrics[last.r.target].unit = PStr(s_percent)
  /\ Created("add_error") => metrics[last.r.target].unit = PStr(<<>>)

\* add_time given a bad unit and an index that cannot be resolved (request_ids
\* a str, idx an int) raised the invalid-unit error, on a store holding a Metric
C5_Witness ==
  /\ last.op = "add_time"
  /\ last.r.exc = "InvalidUnit"
  /\ last.unit = PStr(s_min)
  /\ request_ids.t = "str"
  /\ last.idx.t = "int"
  /\ Len(store) = 1

\* C6: a call of any add operation whose dimensions argument is not a list
\* raises: the dimensions error, unless the unit check or the request-id
\* resolution raised first.
C6_NonListDimensionsRejected ==
  (last.op \in Ops /\ last.dimensions.t = "tuple") =>
    \/ last.r.exc = "InvalidDimensions"
    \/ last.r.exc # "" /\ last.r.at \in {85, 124, 144}

\* C7: with request_ids a str, every operation that takes idx resolves the
\* request id to that str, whatever idx is, and resolving does not raise.
C7_ScalarPassthrough ==
  (request_ids.t = "str" /\ last.op \in IdxOps /\ last.r.at \notin {124, 144}) =>
    /\ last.r.at # 85
    /\ last.r.req_id = PStr(request_ids.s)

\* the batch mapping {0: 'r1', 1: 'r2'} and the join of its values
BatchIds == <<[k |-> 0, v |-> s_r1], [k |-> 1, v |-> s_r2]>>
s_r1_r2 == <<"r", "1", ",", "r", "2">>

\* op called with idx i1 and then, on the objects it left, with idx i2
TwoCalls(op, i1, i2) ==
  LET a == PStr(<<"a">>)
      o1 == CASE op = "add_counter" ->
                   add_counter(Objects(lists), request_ids, model_name, a, 1, i1, PNone)
              [] op = "add_time" ->
                   add_time(Objects(lists), request_ids, model_name, a, 1, i1, PStr(s_ms), PNone)
              [] op = "add_size" ->
                   add_size(Objects(lists), request_ids, model_name, a, 1, i1, PStr(s_MB), PNone)
              [] op = "add_percent" ->
                   add_percent(Objects(lists), request_ids, model_name, a, 1, i1, PNone)
              [] op = "add_metric" ->
                   add_metric(Objects(lists), request_ids, model_name, a, 1, i1, PStr(s_count), PNone)
      o2 == CASE op = "add_counter" ->
                   add_counter(o1.st, request_ids, model_name, a, 2, i2, PNone)
              [] op = "add_time" ->
                   add_time(o1.st, request_ids, model_name, a, 2, i2, PStr(s_ms), PNone)
              [] op = "add_size" ->
                   add_size(o1.st, request_ids, model_name, a, 2, i2, PStr(s_MB), PNone)
              [] op = "add_percent" ->
                   add_percent(o1.st, request_ids, model_name, a, 2, i2, PNone)
              [] op = "add_metric" ->
                   add_metric(o1.st, request_ids, model_name, a, 2, i2, PStr(s_count), PNone)
  IN <<o1, o2>>

\* C8: with request_ids a dict, idx a key (0 included) resolves to the mapped
\* id, idx None or not a key to the comma-join of the values in dict order;
\* so an idx=None call and an idx-miss call with the same other arguments
\* fall on one Metric, and calls with two different keys on two Metrics.
C8_MappingResolution ==
  /\ (request_ids = RDict(BatchIds) /\ last.op \in IdxOps /\ last.r.at \notin {124, 144}) =>
       /\ last.r.at # 85
       /\ last.r.req_id = IF last.idx = PInt(0) THEN PStr(s_r1)
                          ELSE IF last.idx = PInt(1) THEN PStr(s_r2)
                          ELSE PStr(s_r1_r2)
  /\ (request_ids = RDict(BatchIds) /\ CanCall) =>
       \A op \in IdxOps :
         LET o == TwoCalls(op, PNone, PInt(5)) IN
         /\ o[1].r.reached
         /\ o[2].r.hit
         /\ o[2].r.target = o[1].r.target
         /\ Len(o[2].st.store) = Len(o[1].st.store)
  /\ (request_ids = RDict(BatchIds) /\ CanCall) =>
       \A op \in IdxOps :
         LET o == TwoCalls(op, PInt(1), PInt(0)) IN
         /\ o[1].r.req_id = PStr(s_r2)
         /\ o[2].r.req_id = PStr(s_r1)
         /\ o[2].r.target # o[1].r.target
  /\ GetReq(RDict(<<[k |-> 1, v |-> s_r2], [k |-> 0, v |-> s_r1]>>), PNone).val
       = PStr(<<"r", "2", ",", "r", "1">>)

\* an idx=5 call (no key 5) updated the Metric an earlier call created under
\* the joined id
C8_Witness ==
  /\ request_ids = RDict(BatchIds)
  /\ last.idx = PInt(5)
  /\ last.r.hit
  /\ last.r.req_id = PStr(s_r1_r2)
  /\ metrics[last.r.target].updates = <<2>>

\* C9: a Metric created by add_counter, add_time, add_size, add_percent or
\* add_metric from a caller's dimension list and a request id that is not
\* None has the caller's dimensions, then ModelName, then Level=Model.
C9_CallerDimensionsKept ==
  (last.op \in IdxOps /\ last.dimensions.t = "list" /\ last.r.reached /\ ~last.r.hit
     /\ last.r.req_id.t # "none") =>
    lists[metrics[last.r.target].dimensions] =
      last.dims_in \o <<Dimension(s_ModelName, model_name), Dimension(s_Level, s_Model)>>

Elems(q) == {q[i] : i \in 1..Len(q)}

\* C10: two calls with the same name, unit and request id whose dimension
\* lists hold the same two or more distinct dimensions in different orders
\* give two Metrics.
C10_DimensionOrderSensitive ==
  (/\ Len(hist) = 2
   /\ SubSeq(hist[1].parts, 1, 3) = SubSeq(hist[2].parts, 1, 3)
   /\ hist[1].dims_in # hist[2].dims_in
   /\ Len(hist[1].dims_in) = Len(hist[2].dims_in)
   /\ Elems(hist[1].dims_in) = Elems(hist[2].dims_in)
   /\ Cardinality(Elems(hist[1].dims_in)) = Len(hist[1].dims_in)
   /\ Len(hist[1].dims_in) >= 2) =>
    /\ hist[1].target # hist[2].target
    /\ Len(store) = 2

\* the dimensions a Metric holds now
DimsOf(id) == lists[metrics[id].dimensions]

HasName(dims, n) == \E i \in 1..Len(dims) : dims[i].name = n

\* C11: a Metric created by add_error has request id None, unit '', Level=Error
\* as its last dimension and no ModelName dimension, whatever request_ids and
\* model_name are; add_error resolves no request id.
C11_ErrorPath ==
  /\ last.op = "add_error" => last.r.req_id = PNone /\ last.r.at # 85
  /\ Created("add_error") =>
       LET m == metrics[last.r.target]
           d == DimsOf(last.r.target)
       IN /\ m.request_id = PNone
          /\ m.unit = PStr(<<>>)
          /\ Len(d) >= 1
          /\ d[Len(d)] = Dimension(s_Level, s_Error)
          /\ ~HasName(d, s_ModelName)

\* add_error created a Metric on a store built with a batch mapping
C11_Witness ==
  /\ Created("add_error")
  /\ request_ids = RDict(BatchIds)
  /\ Len(store) = 2

\* C12: a Metric created by add_counter has aggregation method 'counter', one
\* created by any other operation has none, also when dimensions are passed.
C12_AggregationMethod ==
  /\ Created("add_counter") => metrics[last.r.target].metrics_method = PStr(s_counter)
  /\ \A op \in Ops \ {"add_counter"} :
       (Created(op) /\ last.dimensions.t \in {"none", "list"}) =>
         metrics[last.r.target].metrics_method = PNone

\* C13: add_metric does not fail on account of its unit, the omitted unit
\* (None) included, and the Metric it creates carries that unit.
C13_AnyUnitAccepted ==
  /\ last.op = "add_metric" => last.r.at # 63
  /\ Created("add_metric") => metrics[last.r.target].unit = last.unit

\* C14: two calls fall on the same Metric only if they agree on name, unit,
\* request id and the ordered dimension strings, that is on the whole key list
\* of line 62; calls that differ in one of them never share a Metric.
C14_KeyUnique ==
  \A i, j \in 1..Len(hist) :
    hist[i].target = hist[j].target => hist[i].parts = hist[j].parts

\* C15: a call whose key is already in cache changes nothing but the cached
\* Metric, on which update(value) runs once: store and cache are as before, no
\* Metric is added, every other Metric is as before, the Metric hit keeps its
\* fields (aggregation method included) and takes the value as MetricUpdate
\* gives it, and no list changes, the caller's own list included.
C15_UpdateFrame ==
  [][last'.r.hit =>
       /\ store' = store
       /\ cache' = cache
       /\ Len(metrics') = Len(metrics)
       /\ \A id \in 1..Len(metrics) :
            id # last'.r.target => metrics'[id] = metrics[id]
       /\ metrics'[last'.r.target] = MetricUpdate(metrics[last'.r.target], last'.value)
       /\ \A a \in 1..Len(lists) : lists'[a] = lists[a]
       /\ last'.dimensions.t = "list" =>
            lists'[last'.dimensions.n] = last'.dims_in]_vars

\* C16: in every state each Metric of store with a request id has dimensions
\* ending with ModelName:model_name, Level:Model and no Level:Error tag, and
\* each Metric without one has dimensions ending with Level:Error and no
\* ModelName tag; that covers Metrics made on a store without request ids.
C16_AugmentationExclusive ==
  \A i \in 1..Len(store) :
    LET m == metrics[store[i]]
        d == DimsOf(store[i])
        n == Len(d)
    IN /\ m.request_id # PNone =>
            /\ n >= 2
            /\ d[n - 1] = Dimension(s_ModelName, model_name)
            /\ d[n] = Dimension(s_Level, s_Model)
            /\ Dimension(s_Level, s_Error) \notin Elems(d)
       /\ m.request_id = PNone =>
            /\ n >= 1
            /\ d[n] = Dimension(s_Level, s_Error)
            /\ Dimension(s_Level, s_Model) \notin Elems(d)
            /\ ~HasName(d, s_ModelName)

\* add_counter, given the caller's two dimensions on a store without request
\* ids, made a Metric tagged Level:Error, beside a Metric made before it
C16_Witness ==
  /\ request_ids = RNone
  /\ Created("add_counter")
  /\ last.dimensions.t = "list"
  /\ Len(store) = 2
  /\ DimsOf(last.r.target) = last.dims_in \o <<Dimension(s_Level, s_Error)>>

\* C17: a call leaves the list it was handed as the caller passed it, and
\* add_counter called again with the same name, idx and list object falls on
\* the Metric of the call before, whose dimensions are the caller's followed
\* by one ModelName tag and one Level tag.
C17_ListKept ==
  (last.op \in Ops /\ last.dimensions.t = "list") =>
    lists[last.dimensions.n] = last.dims_in

C17_SameMetric ==
  (/\ last.op = "add_counter" /\ last'.op = "add_counter"
   /\ last.r.reached /\ last'.r.reached
   /\ last.r.req_id # PNone
   /\ last'.idx = last.idx
   /\ last.dimensions.t = "list" /\ last'.dimensions = last.dimensions) =>
    /\ last'.r.target = last.r.target
    /\ Len(store') = Len(store)
    /\ Len(lists'[metrics'[last'.r.target].dimensions]) = Len(last.dims_in) + 2

C17_NoLeakage == []C17_ListKept /\ [][C17_SameMetric]_vars

====
